---- MODULE Spec2Model ----
(***************************************************************************)
(* A model of the DotA2 random hero selector: the logic layer              *)
(* RandomHeroSelectManager (src/random_hero_select.py) driven by the       *)
(* checkboxes and buttons of src/random_hero_select_gui.py.                *)
(*                                                                         *)
(* Python values are modelled as follows.                                  *)
(*   - a JSON file is a record [decodable, keys, recs]: whether json.load  *)
(*     succeeds, the identifiers in document order and the record of each  *)
(*     identifier (a function from field names to values);                 *)
(*   - an attribute value is a record [list, v]: list says whether the     *)
(*     Python value is a list, v is the set of its elements (one element   *)
(*     for a scalar, none for a missing value, NaN);                       *)
(*   - a DataFrame is a record [columns, data]: its column names and its   *)
(*     rows [name, rec] in index order; a cell missing from rec is NaN;    *)
(*   - a boolean numpy array is a sequence of BOOLEAN;                     *)
(*   - a probability is a fraction [num, den] over the table ExpTable of   *)
(*     exp(-d) in thousandths; [num |-> 0, den |-> 0] is NaN;              *)
(*   - an image is the name of its file in the images/ folder; what        *)
(*     requests.get does is one of Responses;                              *)
(*   - a raised exception is the name of its class, "None" when the call   *)
(*     returned.                                                           *)
(***************************************************************************)
EXTENDS Integers, Sequences, FiniteSets, TLC

VARIABLES
    files,                \* the JSON files on disk, by location
    hero_dataframe,       \* self.hero_dataframe
    mask,                 \* self.mask
    filtered_dataframe,   \* self.filtered_dataframe
    hero_probabilities,   \* self.hero_probabilities
    preference_location,  \* self.preference_location
    checkbox,             \* the Checkbar of each filter: the labels whose IntVar is 1
    hero_text,            \* HeroPortrait.hero_text
    photo,                \* HeroPortrait.photo_placeholder.image: the file it shows
    available_images,     \* self.available_images
    images,               \* the files of the images/ folder
    last,                 \* the last callback that ran: its name, its argument, the
                          \* mask before it, the exception it raised, whether its
                          \* combined mask was all False, and its call of fetch_image
    probe                 \* the last direct call of a helper: arguments and result

vars == <<files, hero_dataframe, mask, filtered_dataframe, hero_probabilities,
          preference_location, checkbox, hero_text, photo, available_images,
          images, last, probe>>

----------------------------------------------------------------------------
(* Python values *)

Scalar(x) == [list |-> FALSE, v |-> {x}]
PyList(S) == [list |-> TRUE, v |-> S]
NaNCell == [list |-> FALSE, v |-> {}]

\* the preference of a row whose preference cell is missing
NaN == -1

NoneFrame == [none |-> TRUE]
EmptyFrame == [columns |-> {}, data |-> <<>>]

NaNProbability == [num |-> 0, den |-> 0]

Range(seq) == {seq[i] : i \in 1..Len(seq)}

RECURSIVE SumSeq(_)
SumSeq(seq) == IF seq = <<>> THEN 0 ELSE Head(seq) + SumSeq(Tail(seq))

RECURSIVE MaxSeq(_)
MaxSeq(seq) ==
    IF Len(seq) = 1 THEN seq[1]
    ELSE LET m == MaxSeq(Tail(seq)) IN IF Head(seq) > m THEN Head(seq) ELSE m

\* the rows of seq at the positions where keep is TRUE, in order
RECURSIVE Take(_, _)
Take(seq, keep) ==
    IF seq = <<>> THEN <<>>
    ELSE (IF Head(keep) THEN <<Head(seq)>> ELSE <<>>) \o Take(Tail(seq), Tail(keep))

----------------------------------------------------------------------------
(* The files of the config/ folder *)

DefaultPreferences == "config/default_hero_list.json"
Configuration == "config/hero_configuration.json"

Malformed == [decodable |-> FALSE, keys |-> <<>>, recs |-> <<>>]

hero_configuration ==
    [decodable |-> TRUE,
     keys |-> <<"axe", "lina", "puck">>,
     recs |-> [axe  |-> [primary_attribute |-> Scalar("strength"),
                         roles |-> PyList({"carry"}),
                         image_prefix |-> "axe"],
               lina |-> [primary_attribute |-> Scalar("intelligence"),
                         roles |-> PyList({"support", "nuker"}),
                         image_prefix |-> "lina"],
               puck |-> [primary_attribute |-> Scalar("intelligence"),
                         roles |-> PyList({"nuker"}),
                         image_prefix |-> "puck"]]]

default_hero_list ==
    [decodable |-> TRUE,
     keys |-> <<"axe", "lina", "puck">>,
     recs |-> [axe  |-> [preference |-> 2],
               lina |-> [preference |-> 0],
               puck |-> [preference |-> 1]]]

\* a configuration file that gives no hero the field roles, which
\* gui_config offers as a filter
hero_configuration_without_roles ==
    [decodable |-> TRUE,
     keys |-> <<"axe", "lina", "puck">>,
     recs |-> [axe  |-> [primary_attribute |-> Scalar("strength"),
                         image_prefix |-> "axe"],
               lina |-> [primary_attribute |-> Scalar("intelligence"),
                         image_prefix |-> "lina"],
               puck |-> [primary_attribute |-> Scalar("intelligence"),
                         image_prefix |-> "puck"]]]

\* a user's list: fewer heroes, another order, and a field the
\* configuration file holds too
custom_hero_list ==
    [decodable |-> TRUE,
     keys |-> <<"lina", "axe">>,
     recs |-> [lina |-> [preference |-> 4,
                         primary_attribute |-> Scalar("strength")],
               axe  |-> [preference |-> 1]]]

\* a user's list that is valid JSON and names no hero
empty_hero_list == [decodable |-> TRUE, keys |-> <<>>, recs |-> <<>>]

\* a user's list where one hero has no preference field
partial_hero_list ==
    [decodable |-> TRUE,
     keys |-> <<"axe", "lina">>,
     recs |-> [axe  |-> [preference |-> 3],
               lina |-> [image_prefix |-> "lina"]]]

\* a user's list naming a hero the configuration file does not know
stranger_hero_list ==
    [decodable |-> TRUE,
     keys |-> <<"axe", "zeus">>,
     recs |-> [axe  |-> [preference |-> 3],
               zeus |-> [preference |-> 2]]]

DiskFiles ==
    (DefaultPreferences :> default_hero_list)
    @@ (Configuration :> hero_configuration)
    @@ ("config/custom.json" :> custom_hero_list)
    @@ ("config/broken.json" :> Malformed)
    @@ ("config/empty.json" :> empty_hero_list)
    @@ ("config/partial.json" :> partial_hero_list)
    @@ ("config/stranger.json" :> stranger_hero_list)

\* what the file dialog of MenuBar.open_file can return
PreferenceFiles == DOMAIN DiskFiles \ {Configuration}

\* config/gui_filter_configuration.json: the filters and their checkbox labels
gui_config ==
    [primary_attribute |-> <<"strength", "intelligence">>,
     roles |-> <<"carry", "support">>]

\* FilterPanel.filters: the filter names in the order of gui_config
filters == <<"primary_attribute", "roles">>

\* hero_text of a drawn hero: random_hero.replace('_', ' ').title()
cleaned_hero_text == [axe |-> "Axe", lina |-> "Lina", puck |-> "Puck"]

\* the portrait shown when none can be had
default_image == "default_vert.jpg"

\* the images/ folder when the program starts: the default portrait and the
\* portraits an earlier run saved
ImagesFolder == {default_image, "axe_vert.jpg"}

\* f"{image_prefix}_vert.jpg", by image_prefix
image_stub ==
    [axe |-> "axe_vert.jpg", lina |-> "lina_vert.jpg", puck |-> "puck_vert.jpg"]

\* how requests.get(url) can end: a response that is ok, a response that is
\* not, or no response at all
Responses == {"ok", "not_ok", "ConnectionError"}

----------------------------------------------------------------------------
(* The loader: generate_hero_dataframe *)

Fields(rec) == DOMAIN rec

\* update, were the fields of rec to win over those of other
update_keeping_rec(rec, other) ==
    [f \in Fields(rec) \cup Fields(other) |->
        IF f \in Fields(rec) THEN rec[f] ELSE other[f]]

\* dict.update: the fields of other overwrite those of rec, the rest stay
update(rec, other) ==
    [f \in Fields(rec) \cup Fields(other) |->
        IF f \in Fields(other) THEN other[f] ELSE rec[f]]

\* pd.DataFrame.from_dict(pref_dict, orient='index'): one row per key and one
\* column per field that some row holds; the rows are kept in the order of
\* the keys (pandas may order them otherwise when rows hold different fields,
\* and nothing here depends on the order)
from_dict(keys, recs) ==
    [columns |-> UNION {Fields(recs[k]) : k \in Range(keys)},
     data |-> [i \in 1..Len(keys) |-> [name |-> keys[i], rec |-> recs[keys[i]]]]]

\* the result [exc, df] of reading both files and merging them
generate_hero_dataframe(disk, preference_loc, configuration_loc) ==
    LET hero_dict == disk[configuration_loc]
        pref_dict == disk[preference_loc]
    IN  IF ~hero_dict.decodable \/ ~pref_dict.decodable
        THEN [exc |-> "JSONDecodeError", df |-> EmptyFrame]
        ELSE IF \E k \in Range(pref_dict.keys) : k \notin Range(hero_dict.keys)
        \* hero_dict.get(key) is None there, and update(None) raises
        THEN [exc |-> "TypeError", df |-> EmptyFrame]
        ELSE [exc |-> "None",
              df |-> from_dict(pref_dict.keys,
                               [k \in Range(pref_dict.keys) |->
                                   update(pref_dict.recs[k], hero_dict.recs[k])])]

----------------------------------------------------------------------------
(* Masks: generate_mask, generate_combined_mask *)

Cell(row, column) ==
    IF column \in Fields(row.rec) THEN row.rec[column] ELSE NaNCell

Ones(n) == [i \in 1..n |-> TRUE]

any(m) == \E i \in 1..Len(m) : m[i]

\* any_isin, were np.all written for np.any
all_isin(cell, desired_values) == \A x \in cell.v : x \in desired_values

\* np.any(np.isin(values, desired_values)) for one cell
any_isin(cell, desired_values) == \E x \in cell.v : x \in desired_values

\* in1d, were it called with invert=True
in1d_inverted(cell, desired_values) ==
    ~cell.list /\ ~(\E x \in cell.v : x \in desired_values)

\* one entry of np.in1d(column, desired_values): the cell itself is compared
\* with each desired value, and a list equals none of them
in1d(cell, desired_values) == ~cell.list /\ \E x \in cell.v : x \in desired_values

\* the result [exc, mask] of generate_mask
generate_mask(df, column_to_check, desired_values) ==
    IF column_to_check \notin df.columns
    THEN [exc |-> "KeyError", mask |-> <<>>]
    ELSE IF df.data = <<>>
    THEN [exc |-> "IndexError", mask |-> <<>>]
    ELSE IF Cell(df.data[1], column_to_check).list
    THEN [exc |-> "None",
          mask |-> [i \in 1..Len(df.data) |->
                       any_isin(Cell(df.data[i], column_to_check), desired_values)]]
    ELSE [exc |-> "None",
          mask |-> [i \in 1..Len(df.data) |->
                       in1d(Cell(df.data[i], column_to_check), desired_values)]]

\* a mask argument of generate_combined_mask: None, or an array
NoneMask == [some |-> FALSE, arr |-> <<>>]
Array(m) == [some |-> TRUE, arr |-> m]

\* generate_combined_mask, were a missing mask_1 to give None at once
generate_combined_mask_none_first(mask_1, mask_2) ==
    IF ~mask_1.some THEN NoneMask
    ELSE IF ~mask_2.some THEN mask_1
    ELSE Array([i \in 1..Len(mask_1.arr) |-> mask_1.arr[i] /\ mask_2.arr[i]])

generate_combined_mask(mask_1, mask_2) ==
    IF ~mask_1.some /\ ~mask_2.some THEN NoneMask
    ELSE IF ~mask_1.some /\ mask_2.some THEN mask_2
    ELSE IF mask_1.some /\ ~mask_2.some THEN mask_1
    ELSE Array([i \in 1..Len(mask_1.arr) |-> mask_1.arr[i] /\ mask_2.arr[i]])

----------------------------------------------------------------------------
(* Probabilities: generate_probability_list *)

\* exp(-d) in thousandths, d = 0, 1, 2, ...
ExpTable == <<1000, 368, 135, 50, 18, 7, 2, 1>>

ExpNeg(d) == IF d < Len(ExpTable) THEN ExpTable[d + 1] ELSE 0

\* scipy.special.softmax: exp(x - max(x)) / sum(exp(x - max(x))); a NaN
\* among the scores makes the maximum, and so every entry, NaN
softmax(x) ==
    IF \E i \in 1..Len(x) : x[i] = NaN
    THEN [i \in 1..Len(x) |-> NaNProbability]
    ELSE LET m == MaxSeq(x)
             e == [i \in 1..Len(x) |-> ExpNeg(m - x[i])]
         IN  [i \in 1..Len(x) |-> [num |-> e[i], den |-> SumSeq(e)]]

preference(row) ==
    IF "preference" \in Fields(row.rec) THEN row.rec.preference ELSE NaN

\* the result [exc, value] of generate_probability_list on a subset
generate_probability_list(df) ==
    IF df = NoneFrame THEN [exc |-> "TypeError", value |-> <<>>]
    ELSE IF "preference" \notin df.columns THEN [exc |-> "KeyError", value |-> <<>>]
    ELSE IF df.data = <<>> THEN [exc |-> "ValueError", value |-> <<>>]
    ELSE [exc |-> "None",
          value |-> softmax([i \in 1..Len(df.data) |-> preference(df.data[i])])]

----------------------------------------------------------------------------
(* The manager's methods, on a record s of its fields.  s.exc names the     *)
(* exception a method raised ("None": it returned); the fields are then as  *)
(* the statement that raised left them.                                     *)

Self ==
    [hero_dataframe |-> hero_dataframe,
     mask |-> mask,
     filtered_dataframe |-> filtered_dataframe,
     hero_probabilities |-> hero_probabilities,
     preference_location |-> preference_location,
     checkbox |-> checkbox,
     exc |-> "None"]

\* the manager after __init__ on the files of disk, with every checkbox off
Constructed(disk) ==
    LET df == generate_hero_dataframe(disk, DefaultPreferences, Configuration).df
    IN  [hero_dataframe |-> df,
         mask |-> Ones(Len(df.data)),
         filtered_dataframe |-> df,
         hero_probabilities |-> generate_probability_list(df).value,
         preference_location |-> DefaultPreferences,
         checkbox |-> [a \in Range(filters) |-> {}],
         exc |-> "None"]

\* reset_filtered_hero_dataframe, were the probabilities left as they are
reset_keeping_probabilities(s) ==
    [s EXCEPT !.mask = Ones(Len(s.hero_dataframe.data)),
              !.filtered_dataframe = s.hero_dataframe]

reset_filtered_hero_dataframe(s) ==
    LET s1 == [s EXCEPT !.mask = Ones(Len(s.hero_dataframe.data)),
                        !.filtered_dataframe = s.hero_dataframe]
        p == generate_probability_list(s1.filtered_dataframe)
    IN  IF p.exc # "None" THEN [s1 EXCEPT !.exc = p.exc]
        ELSE [s1 EXCEPT !.hero_probabilities = p.value]

\* generate_filtered_hero_dataframe, were the mask not applied
generate_filtered_hero_dataframe_unmasked(s) ==
    LET s1 == [s EXCEPT !.filtered_dataframe = s.hero_dataframe]
        p == generate_probability_list(s1.filtered_dataframe)
    IN  IF p.exc # "None" THEN [s1 EXCEPT !.exc = p.exc]
        ELSE [s1 EXCEPT !.hero_probabilities = p.value]

generate_filtered_hero_dataframe(s) ==
    LET s1 == [s EXCEPT !.filtered_dataframe =
                   [columns |-> s.hero_dataframe.columns,
                    data |-> Take(s.hero_dataframe.data, s.mask)]]
        p == generate_probability_list(s1.filtered_dataframe)
    IN  IF p.exc # "None" THEN [s1 EXCEPT !.exc = p.exc]
        ELSE [s1 EXCEPT !.hero_probabilities = p.value]

\* Checkbar.fetch_selected_labels
fetch_selected_labels(s, key) == s.checkbox[key]

\* Checkbar.clear of every Checkbar of checkbox_dict
clear(s, checkbox_dict) ==
    [s EXCEPT !.checkbox =
        [a \in DOMAIN s.checkbox |->
            IF a \in Range(checkbox_dict) THEN {} ELSE s.checkbox[a]]]

callback_clear_masks(s, checkbox_dict) ==
    reset_filtered_hero_dataframe(clear(s, checkbox_dict))

\* combine_filters, were a filter with no checkbox ticked skipped
RECURSIVE combine_filters_skipping(_, _, _)
combine_filters_skipping(s, checkbox_dict, i) ==
    IF i > Len(checkbox_dict) THEN s
    ELSE LET key == checkbox_dict[i]
             selected == fetch_selected_labels(s, key)
             m == generate_mask(s.hero_dataframe, key, selected)
         IN  IF selected = {} THEN combine_filters_skipping(s, checkbox_dict, i + 1)
             ELSE IF m.exc # "None" THEN [s EXCEPT !.exc = m.exc]
             ELSE combine_filters_skipping(
                    [s EXCEPT !.mask =
                        generate_combined_mask(Array(s.mask), Array(m.mask)).arr],
                    checkbox_dict, i + 1)

\* combine_filters, were the labels of a filter with no checkbox ticked not
\* put in place of the empty selection
RECURSIVE combine_filters_empty_selection(_, _, _)
combine_filters_empty_selection(s, checkbox_dict, i) ==
    IF i > Len(checkbox_dict) THEN s
    ELSE LET key == checkbox_dict[i]
             m == generate_mask(s.hero_dataframe, key, fetch_selected_labels(s, key))
         IN  IF m.exc # "None" THEN [s EXCEPT !.exc = m.exc]
             ELSE combine_filters_empty_selection(
                    [s EXCEPT !.mask =
                        generate_combined_mask(Array(s.mask), Array(m.mask)).arr],
                    checkbox_dict, i + 1)

\* the loop of callback_generate_masks from its i-th filter on
RECURSIVE combine_filters(_, _, _)
combine_filters(s, checkbox_dict, i) ==
    IF i > Len(checkbox_dict) THEN s
    ELSE LET key == checkbox_dict[i]
             selected == fetch_selected_labels(s, key)
             checkbox_values == IF selected = {} THEN Range(gui_config[key])
                                ELSE selected
             m == generate_mask(s.hero_dataframe, key, checkbox_values)
         IN  IF m.exc # "None" THEN [s EXCEPT !.exc = m.exc]
             ELSE combine_filters(
                    [s EXCEPT !.mask =
                        generate_combined_mask(Array(s.mask), Array(m.mask)).arr],
                    checkbox_dict, i + 1)

\* callback_generate_masks up to its test of the combined mask, were line 221
\* not to reset first: the masks are combined into the mask left by the
\* call before
combined_without_reset(s, checkbox_dict) ==
    combine_filters([s EXCEPT !.filtered_dataframe = NoneFrame], checkbox_dict, 1)

\* callback_generate_masks up to its test of the combined mask
combined(s, checkbox_dict) ==
    LET r == reset_filtered_hero_dataframe(s)
    IN  IF r.exc # "None" THEN r
        \* reset_filtered_hero_dataframe returns None, which line 221 stores
        ELSE combine_filters([r EXCEPT !.filtered_dataframe = NoneFrame],
                             checkbox_dict, 1)

\* whether the call takes the branch of an all-False mask
no_match(s, checkbox_dict) ==
    LET c == combined(s, checkbox_dict) IN c.exc = "None" /\ ~any(c.mask)

\* callback_generate_masks, were the test of an all-False mask left out
callback_generate_masks_unchecked(s, checkbox_dict) ==
    LET c == combined(s, checkbox_dict)
    IN  IF c.exc # "None" THEN c ELSE generate_filtered_hero_dataframe(c)

callback_generate_masks(s, checkbox_dict) ==
    LET c == combined(s, checkbox_dict)
    IN  IF c.exc # "None" THEN c
        ELSE IF ~any(c.mask)
        THEN LET r == reset_filtered_hero_dataframe(c)
             IN  IF r.exc # "None" THEN r ELSE callback_clear_masks(r, checkbox_dict)
        ELSE generate_filtered_hero_dataframe(c)

\* callback_open_new_preference_list, were the reset left out
callback_open_new_preference_list_no_reset(s, disk, preference_loc) ==
    LET g == generate_hero_dataframe(disk, preference_loc, Configuration)
    IN  IF g.exc # "None" THEN [s EXCEPT !.exc = g.exc]
        ELSE [s EXCEPT !.hero_dataframe = g.df,
                       !.preference_location = preference_loc]

callback_open_new_preference_list(s, disk, preference_loc) ==
    LET g == generate_hero_dataframe(disk, preference_loc, Configuration)
    IN  IF g.exc # "None" THEN [s EXCEPT !.exc = g.exc]
        ELSE reset_filtered_hero_dataframe(
                [s EXCEPT !.hero_dataframe = g.df,
                          !.preference_location = preference_loc])

\* the first statement of callback_generate_random_hero, were the filters
\* never applied
apply_hero_filters_never(s, hero_filters) == s

\* the first statement of callback_generate_random_hero, were it not to test
\* hero_filters
apply_hero_filters_always(s, hero_filters) ==
    callback_generate_masks(s, hero_filters)

\* the first statement of callback_generate_random_hero
apply_hero_filters(s, hero_filters) ==
    IF hero_filters # <<>> THEN callback_generate_masks(s, hero_filters) ELSE s

\* the exception of filtered_dataframe.sample(weights=hero_probabilities)
sample_exc(s) ==
    IF s.filtered_dataframe = NoneFrame THEN "AttributeError"
    ELSE IF Len(s.hero_probabilities) # Len(s.filtered_dataframe.data)
            \/ s.filtered_dataframe.data = <<>>
            \/ \A i \in 1..Len(s.hero_probabilities) : s.hero_probabilities[i].num = 0
    THEN "ValueError"
    ELSE "None"

\* sample, were it to draw from the whole pool
sample_hero_dataframe(s) ==
    {s.hero_dataframe.data[i].name : i \in 1..Len(s.hero_dataframe.data)}

\* the index values sample can draw: the rows of positive weight
sample(s) ==
    {s.filtered_dataframe.data[i].name :
        i \in {j \in 1..Len(s.filtered_dataframe.data) : s.hero_probabilities[j].num > 0}}

\* hero_dataframe.loc[name, column]
loc(df, name, column) ==
    LET i == CHOOSE j \in 1..Len(df.data) : df.data[j].name = name
    IN  df.data[i].rec[column]

\* a callback that did not call fetch_image
NoFetch == [called |-> FALSE]

\* the result of fetch_image: the exception it raised, the file the portrait
\* is read from, whether the CDN was asked, and the files written to images/
fetch_image(available, stub, response) ==
    IF stub \in available
    THEN [exc |-> "None", image |-> stub, requested |-> FALSE, saved |-> {}]
    ELSE IF response = "ConnectionError"
    \* requests.get raises, and nothing catches it
    THEN [exc |-> "ConnectionError", image |-> "", requested |-> TRUE, saved |-> {}]
    ELSE IF response = "not_ok"
    THEN [exc |-> "None", image |-> default_image, requested |-> TRUE, saved |-> {}]
    ELSE [exc |-> "None", image |-> stub, requested |-> TRUE, saved |-> {stub}]

----------------------------------------------------------------------------
(* The session: the callbacks the GUI runs, one at a time *)

Returned(op, s) ==
    /\ hero_dataframe' = s.hero_dataframe
    /\ mask' = s.mask
    /\ filtered_dataframe' = s.filtered_dataframe
    /\ hero_probabilities' = s.hero_probabilities
    /\ preference_location' = s.preference_location
    /\ checkbox' = s.checkbox
    /\ last' = op

\* the manager right after __init__ on the files of disk
InitOn(disk) ==
    /\ files = disk
    /\ hero_dataframe = Constructed(disk).hero_dataframe
    /\ mask = Constructed(disk).mask
    /\ filtered_dataframe = Constructed(disk).filtered_dataframe
    /\ hero_probabilities = Constructed(disk).hero_probabilities
    /\ preference_location = Constructed(disk).preference_location
    /\ checkbox = Constructed(disk).checkbox
    /\ hero_text = ""
    /\ photo = default_image
    /\ available_images = ImagesFolder
    /\ images = ImagesFolder
    /\ last = [op |-> "__init__", exc |-> "None", no_match |-> FALSE, arg |-> <<>>,
               before |-> <<>>, fetch |-> NoFetch]
    /\ probe = [fn |-> "none"]

Init == InitOn(DiskFiles)

\* the user ticks or unticks one checkbox
Toggle ==
    \E a \in Range(filters) : \E l \in Range(gui_config[a]) :
        /\ checkbox' = [checkbox EXCEPT ![a] =
                           IF l \in @ THEN @ \ {l} ELSE @ \cup {l}]
        /\ last' = [op |-> "toggle", exc |-> "None", no_match |-> FALSE,
                    arg |-> <<>>, before |-> mask, fetch |-> NoFetch]
        /\ UNCHANGED <<files, hero_dataframe, mask, filtered_dataframe,
                       hero_probabilities, preference_location, hero_text, photo,
                       available_images, images, probe>>

\* the button Apply Filters
ApplyFilters ==
    LET s == callback_generate_masks(Self, filters)
    IN  /\ Returned([op |-> "callback_generate_masks", exc |-> s.exc,
                     no_match |-> no_match(Self, filters), arg |-> filters,
                     before |-> mask, fetch |-> NoFetch], s)
        /\ UNCHANGED <<files, hero_text, photo, available_images, images, probe>>

\* the button Clear Filters
ClearFilters ==
    LET s == callback_clear_masks(Self, filters)
    IN  /\ Returned([op |-> "callback_clear_masks", exc |-> s.exc,
                     no_match |-> FALSE, arg |-> filters, before |-> mask, fetch |-> NoFetch], s)
        /\ UNCHANGED <<files, hero_text, photo, available_images, images, probe>>

\* the menu entry Open New Preference File: open_file hands the chosen file to
\* callback_open_new_preference_list; on JSONDecodeError it shows an error box
\* ("Reverting to the default preference list") and does nothing else
OpenFile ==
    \E file_name \in PreferenceFiles :
        LET s == callback_open_new_preference_list(Self, files, file_name)
        IN  /\ Returned([op |-> "callback_open_new_preference_list", exc |-> s.exc,
                         no_match |-> FALSE, arg |-> <<file_name>>,
                         before |-> mask, fetch |-> NoFetch], s)
            /\ UNCHANGED <<files, hero_text, photo, available_images, images, probe>>

\* callback_generate_random_hero, with no filters or with those of the panel
GenerateRandomHero ==
    \E hero_filters \in {<<>>, filters} : \E response \in Responses :
        LET s == apply_hero_filters(Self, hero_filters)
            drawn == IF s.exc # "None" THEN s.exc ELSE sample_exc(s)
            op(exc, fetch) ==
                [op |-> "callback_generate_random_hero",
                 exc |-> exc,
                 no_match |-> hero_filters # <<>> /\ no_match(Self, hero_filters),
                 arg |-> hero_filters,
                 before |-> mask,
                 fetch |-> fetch]
        IN  IF drawn # "None"
            THEN /\ Returned(op(drawn, NoFetch), s)
                 /\ UNCHANGED <<files, hero_text, photo, available_images, images,
                                probe>>
            ELSE \E random_hero \in sample(s) :
                    LET stub == image_stub[loc(s.hero_dataframe, random_hero,
                                               "image_prefix")]
                        f == fetch_image(available_images, stub, response)
                    IN  /\ Returned(op(f.exc,
                                       [called |-> TRUE,
                                        random_hero |-> random_hero,
                                        image_stub |-> stub,
                                        response |-> IF f.requested THEN response
                                                     ELSE "none",
                                        image |-> f.image]), s)
                        /\ images' = images \cup f.saved
                        /\ IF f.exc # "None"
                           THEN UNCHANGED <<hero_text, photo>>
                           ELSE /\ hero_text' = cleaned_hero_text[random_hero]
                                /\ photo' = f.image
                        /\ UNCHANGED <<files, available_images, probe>>

\* the parameters of callback_generate_random_hero, after self
callback_generate_random_hero_parameters ==
    <<"hero_filters", "photo_placeholder", "photo_label", "hero_text">>

\* the arguments the lambda of random_button passes
random_button_arguments == <<"photo_placeholder", "photo_label", "hero_text">>

\* a call binds when it passes one argument for each parameter
binds(arguments, parameters) == Len(arguments) = Len(parameters)

\* the button Next Hero Please!: its lambda calls callback_generate_random_hero
\* with arguments that do not bind, so the call raises before its body runs
NextHeroPlease ==
    /\ ~binds(random_button_arguments, callback_generate_random_hero_parameters)
    /\ last' = [op |-> "random_button", exc |-> "TypeError", no_match |-> FALSE,
                arg |-> random_button_arguments, before |-> mask,
                fetch |-> NoFetch]
    /\ UNCHANGED <<files, hero_dataframe, mask, filtered_dataframe,
                   hero_probabilities, preference_location, checkbox, hero_text,
                   photo, available_images, images, probe>>

Next ==
    \/ Toggle
    \/ ApplyFilters
    \/ ClearFilters
    \/ OpenFile
    \/ GenerateRandomHero
    \/ NextHeroPlease

Spec == Init /\ [][Next]_vars

----------------------------------------------------------------------------
(* Properties of the session *)

\* the last callback ran callback_generate_masks, by itself or on behalf of
\* callback_generate_random_hero
RanGenerateMasks ==
    \/ last.op = "callback_generate_masks"
    \/ last.op = "callback_generate_random_hero" /\ last.arg # <<>>

AllTrue(m, df) == Len(m) = Len(df.data) /\ \A i \in 1..Len(m) : m[i]

\* mask, subset and distribution are those of a catalog nothing is filtered from
AllEligible ==
    /\ AllTrue(mask, hero_dataframe)
    /\ filtered_dataframe = hero_dataframe
    /\ hero_probabilities = generate_probability_list(hero_dataframe).value

\* C1: a call of callback_generate_masks whose combined mask selects no hero
\* returns with the mask all true, the filtered pool equal to the whole pool,
\* the probabilities those of the whole pool, and every checkbox cleared.
C1_NoMatchResetsToAllEligible ==
    (RanGenerateMasks /\ last.no_match) =>
        /\ AllEligible
        /\ \A a \in Range(last.arg) : checkbox[a] = {}

C1_Witness ==
    /\ last.op = "callback_generate_masks"
    /\ last.no_match
    /\ last.exc = "None"
    /\ Len(hero_dataframe.data) > 1

\* C2: a call of callback_generate_masks whose combined mask selects no hero
\* ends with an error its caller can tell from a successful call.
C2_NoMatchIsSignalled ==
    (last.op = "callback_generate_masks" /\ last.no_match) => last.exc # "None"

\* C3: whatever callbacks ran, and however they ended, the filtered pool
\* holds at least one hero.
C3_ActiveSubsetNeverEmpty ==
    filtered_dataframe # NoneFrame /\ Len(filtered_dataframe.data) >= 1

\* C4: a call of callback_open_new_preference_list that raises leaves the
\* pool, the mask, the filtered pool, the probabilities and the remembered
\* preference location as they were.
C4_FailedReloadChangesNothing ==
    [][(last'.op = "callback_open_new_preference_list" /\ last'.exc # "None") =>
          /\ hero_dataframe' = hero_dataframe
          /\ mask' = mask
          /\ filtered_dataframe' = filtered_dataframe
          /\ hero_probabilities' = hero_probabilities
          /\ preference_location' = preference_location]_vars

\* C5: after a call of callback_open_new_preference_list that returns, the
\* pool holds the heroes of the file just opened, the mask is all true with
\* one entry per hero of that pool, the filtered pool is that pool and the
\* probabilities are those of that pool.
C5_ReloadResetsToNewCatalog ==
    (last.op = "callback_open_new_preference_list" /\ last.exc = "None") =>
        /\ preference_location = last.arg[1]
        /\ Len(hero_dataframe.data) = Len(files[last.arg[1]].keys)
        /\ {hero_dataframe.data[i].name : i \in 1..Len(hero_dataframe.data)}
              = Range(files[last.arg[1]].keys)
        /\ AllEligible

\* a reload that returned, from a pool of three heroes filtered down to one
\* to a pool of two
C5_Witness ==
    /\ last.op = "callback_open_new_preference_list"
    /\ last.exc = "None"
    /\ last.before = <<TRUE, FALSE, FALSE>>
    /\ Len(hero_dataframe.data) = 2
    /\ checkbox["primary_attribute"] = {"strength"}

\* checkbox_dict without the filter a
Without(checkbox_dict, a) == SelectSeq(checkbox_dict, LAMBDA k : k # a)

\* the row holds one of the labels the filter a offers
Offered(row, a) == \E x \in Cell(row, a).v : x \in Range(gui_config[a])

\* C6 as claimed: a filter with no checkbox ticked restricts nothing: the
\* mask and the filtered pool are those of the same call without that filter.
C6_UntickedFilterIsNoRestriction ==
    [][\A a \in Range(filters) :
          (/\ last'.op = "callback_generate_masks"
           /\ last'.exc = "None"
           /\ checkbox[a] = {}) =>
              LET r == callback_generate_masks(Self, Without(filters, a))
              IN  /\ mask' = r.mask
                  /\ filtered_dataframe' = r.filtered_dataframe]_vars

\* C6 as amended: when the call finds a match, a filter with no checkbox
\* ticked keeps the rows holding one of its labels: the mask is that of the
\* same call without the filter, restricted to those rows, and the filtered
\* pool is the pool under that mask.
C6_UntickedFilterKeepsLabelledRows ==
    [][\A a \in Range(filters) :
          (/\ last'.op = "callback_generate_masks"
           /\ last'.exc = "None"
           /\ ~last'.no_match
           /\ checkbox[a] = {}) =>
              LET r == callback_generate_masks(Self, Without(filters, a))
              IN  /\ mask' = [i \in 1..Len(hero_dataframe.data) |->
                                r.mask[i] /\ Offered(hero_dataframe.data[i], a)]
                  /\ filtered_dataframe'.data = Take(hero_dataframe.data, mask')
                  /\ (\A i \in 1..Len(hero_dataframe.data) :
                         Offered(hero_dataframe.data[i], a))
                       => (mask' = r.mask
                           /\ filtered_dataframe' = r.filtered_dataframe)]_vars

\* a call that found a match with no checkbox of roles ticked, and dropped puck,
\* who holds no label of roles
C6_Witness ==
    /\ last.op = "callback_generate_masks"
    /\ last.exc = "None"
    /\ ~last.no_match
    /\ checkbox["roles"] = {}
    /\ checkbox["primary_attribute"] = {"intelligence"}
    /\ mask = <<FALSE, TRUE, FALSE>>

\* the callbacks of the session, and the construction
SessionOperations ==
    {"__init__", "callback_generate_masks", "callback_clear_masks",
     "callback_open_new_preference_list", "callback_generate_random_hero"}

\* the last callback returned
Completed == last.op \in SessionOperations /\ last.exc = "None"

\* C13: after the construction and after every callback that returned, the
\* mask has one entry per hero of the pool and the filtered pool holds the
\* rows of the pool whose entry is true, in the order of the pool.
C13_SubsetIsCatalogUnderMask ==
    Completed =>
        /\ Len(mask) = Len(hero_dataframe.data)
        /\ filtered_dataframe # NoneFrame
        /\ filtered_dataframe.columns = hero_dataframe.columns
        /\ filtered_dataframe.data = Take(hero_dataframe.data, mask)

\* a draw that filtered the pool of three heroes down to axe
C13_Witness ==
    /\ last.op = "callback_generate_random_hero"
    /\ last.exc = "None"
    /\ last.arg = filters
    /\ ~last.no_match
    /\ mask = <<TRUE, FALSE, FALSE>>
    /\ Len(hero_dataframe.data) = 3
    /\ Len(filtered_dataframe.data) = 1

Drew == last.op = "callback_generate_random_hero" /\ last.fetch.called

\* the rows of the filtered pool that hold the hero
RowsOf(name) ==
    {i \in 1..Len(filtered_dataframe.data) : filtered_dataframe.data[i].name = name}

\* C15: a call of callback_generate_random_hero whose sample returns draws one
\* hero, a row of the filtered pool as it is at the draw, and one of positive
\* probability; the name shown is that hero's when the call returns; and on
\* every filter handed to the call with a checkbox ticked, the hero holds a
\* ticked label.
C15_DrawnHeroIsOfActiveSubset ==
    Drew =>
        /\ filtered_dataframe # NoneFrame
        /\ Cardinality(RowsOf(last.fetch.random_hero)) = 1
        /\ \A i \in RowsOf(last.fetch.random_hero) :
              /\ hero_probabilities[i].num > 0
              /\ \A a \in Range(last.arg) :
                    checkbox[a] # {} =>
                       \E x \in Cell(filtered_dataframe.data[i], a).v : x \in checkbox[a]
        /\ last.exc = "None" => hero_text = cleaned_hero_text[last.fetch.random_hero]

\* a draw with intelligence ticked and no role ticked, on the pool of three
\* heroes: lina is drawn
C15_Witness ==
    /\ Drew
    /\ last.exc = "None"
    /\ last.arg = filters
    /\ checkbox["primary_attribute"] = {"intelligence"}
    /\ checkbox["roles"] = {}
    /\ Len(hero_dataframe.data) = 3
    /\ last.fetch.random_hero = "lina"
    /\ hero_text = "Lina"

\* C17 as claimed: a call of callback_generate_random_hero that returns
\* leaves the pool, the mask, the filtered pool, the probabilities and the
\* checkboxes as they were.
C17_DrawLeavesSessionUnchanged ==
    [][(last'.op = "callback_generate_random_hero" /\ last'.exc = "None") =>
          /\ hero_dataframe' = hero_dataframe
          /\ mask' = mask
          /\ filtered_dataframe' = filtered_dataframe
          /\ hero_probabilities' = hero_probabilities
          /\ checkbox' = checkbox]_vars

\* the labels a filter stands for: the ticked ones, or all when none is ticked
Selected(a) == IF checkbox[a] = {} THEN Range(gui_config[a]) ELSE checkbox[a]

\* C17 as amended: a call of callback_generate_random_hero that returns
\* leaves the pool as it was.  Handed no filters, it leaves the mask, the
\* filtered pool, the probabilities and the checkboxes as they were too.
\* Handed filters, it first applies them: when a hero matches, the
\* checkboxes stay, the mask keeps the heroes holding a selected label on
\* every filter, and the filtered pool and the probabilities are those of
\* that mask; when none matches, the checkboxes are cleared and the mask, the
\* filtered pool and the probabilities are those of the whole pool.
C17_DrawChangesOnlyWhatItsFiltersChange ==
    [][(last'.op = "callback_generate_random_hero" /\ last'.exc = "None") =>
          /\ hero_dataframe' = hero_dataframe
          /\ last'.arg = <<>> =>
                /\ mask' = mask
                /\ filtered_dataframe' = filtered_dataframe
                /\ hero_probabilities' = hero_probabilities
                /\ checkbox' = checkbox
          /\ (last'.arg # <<>> /\ ~last'.no_match) =>
                /\ checkbox' = checkbox
                /\ mask' = [i \in 1..Len(hero_dataframe.data) |->
                               \A a \in Range(last'.arg) :
                                   \E x \in Cell(hero_dataframe.data[i], a).v :
                                       x \in Selected(a)]
                /\ filtered_dataframe'.data = Take(hero_dataframe.data, mask')
                /\ hero_probabilities' =
                      softmax([i \in 1..Len(filtered_dataframe'.data) |->
                                  preference(filtered_dataframe'.data[i])])
          /\ (last'.arg # <<>> /\ last'.no_match) =>
                /\ \A a \in Range(last'.arg) : checkbox'[a] = {}
                /\ AllTrue(mask', hero_dataframe)
                /\ filtered_dataframe' = hero_dataframe
                /\ hero_probabilities' =
                      generate_probability_list(hero_dataframe).value]_vars

\* a draw handed the filters of the panel, after strength was applied and the
\* tick then moved to intelligence: the mask moves from axe to lina
C17_Witness ==
    /\ last.op = "callback_generate_random_hero"
    /\ last.exc = "None"
    /\ last.arg = filters
    /\ last.before = <<TRUE, FALSE, FALSE>>
    /\ mask = <<FALSE, TRUE, FALSE>>
    /\ checkbox["primary_attribute"] = {"intelligence"}

\* C20: a draw whose portrait is not in available_images and whose request
\* fails, by a response that is not ok or by no response at all, returns,
\* shows the default portrait and shows the name of the drawn hero.
C20_FailedRetrievalFallsBackToDefault ==
    (Drew /\ last.fetch.response \in {"not_ok", "ConnectionError"}) =>
        /\ last.exc = "None"
        /\ last.fetch.image = default_image
        /\ photo = default_image
        /\ hero_text = cleaned_hero_text[last.fetch.random_hero]

\* the manager with every label of the filter a ticked
AllTicked(a) == [Self EXCEPT !.checkbox[a] = Range(gui_config[a])]

\* C22: a call of callback_generate_masks with no checkbox of a filter ticked
\* ends as the same call with every checkbox of that filter ticked: the same
\* exception or none, the same mask, the same filtered pool and the same
\* probabilities, whatever the pool and the other filter's checkboxes.
C22_UntickedIsAllTicked ==
    [][\A a \in Range(filters) :
          (last'.op = "callback_generate_masks" /\ checkbox[a] = {}) =>
              LET r == callback_generate_masks(AllTicked(a), filters)
              IN  /\ last'.exc = r.exc
                  /\ mask' = r.mask
                  /\ filtered_dataframe' = r.filtered_dataframe
                  /\ hero_probabilities' = r.hero_probabilities]_vars

\* a call with support ticked and no attribute ticked, on the pool of three
\* heroes: lina is kept
C22_Witness ==
    /\ last.op = "callback_generate_masks"
    /\ last.exc = "None"
    /\ ~last.no_match
    /\ checkbox["primary_attribute"] = {}
    /\ checkbox["roles"] = {"support"}
    /\ Len(hero_dataframe.data) = 3
    /\ mask = <<FALSE, TRUE, FALSE>>

\* C23: a press of the button Next Hero Please! runs
\* callback_generate_random_hero to its end: the call returns, a hero is
\* drawn and the name shown is that hero's.
C23_ButtonPressDrawsAHero ==
    last.op = "random_button" =>
        /\ last.exc = "None"
        /\ last.fetch.called
        /\ hero_text = cleaned_hero_text[last.fetch.random_hero]

\* the mask the checkboxes stand for on the pool df: a hero is kept when, on
\* every filter of checkbox_dict, it holds one of the labels the filter
\* stands for
SelectionMask(df, checkbox_dict) ==
    [i \in 1..Len(df.data) |->
        \A a \in Range(checkbox_dict) :
            \E x \in Cell(df.data[i], a).v : x \in Selected(a)]

\* the names of the rows of a pool
Names(df) == {df.data[i].name : i \in 1..Len(df.data)}

\* C24: a call of callback_generate_random_hero handed filters draws from a
\* filtered pool that is current with the checkboxes as they are when it is
\* called, whatever was applied, toggled or reloaded before: the pool under
\* the mask the checkboxes stand for, with the probabilities of that filtered
\* pool, and the drawn hero is one of its rows.  When that mask keeps no hero
\* the reset of lines 230-234 applies: the whole pool, the checkboxes cleared.
C24_DrawIsFromSubsetComputedInTheCall ==
    [][(/\ last'.op = "callback_generate_random_hero"
        /\ last'.arg # <<>>
        /\ last'.fetch.called) =>
          LET m == SelectionMask(hero_dataframe, last'.arg)
          IN  /\ hero_dataframe' = hero_dataframe
              /\ any(m) =>
                    /\ mask' = m
                    /\ filtered_dataframe'.data = Take(hero_dataframe.data, m)
                    /\ checkbox' = checkbox
              /\ ~any(m) =>
                    /\ AllTrue(mask', hero_dataframe)
                    /\ filtered_dataframe' = hero_dataframe
                    /\ \A a \in Range(last'.arg) : checkbox'[a] = {}
              /\ hero_probabilities' =
                    softmax([i \in 1..Len(filtered_dataframe'.data) |->
                                preference(filtered_dataframe'.data[i])])
              /\ last'.fetch.random_hero \in Names(filtered_dataframe')]_vars

\* a draw handed the filters of the panel, with strength ticked, right after
\* the list of two heroes was opened: axe is drawn
C24_Witness ==
    /\ last.op = "callback_generate_random_hero"
    /\ last.exc = "None"
    /\ last.arg = filters
    /\ preference_location = "config/custom.json"
    /\ last.before = <<TRUE, TRUE>>
    /\ mask = <<FALSE, TRUE>>
    /\ checkbox["primary_attribute"] = {"strength"}
    /\ last.fetch.random_hero = "axe"

\* C25: after Open New Preference File on a file that cannot be decoded, the
\* pool in use is the one built from the default preference file, whichever
\* preference file was in use before.
C25_UndecodableFileRevertsToDefault ==
    (last.op = "callback_open_new_preference_list" /\ last.exc = "JSONDecodeError") =>
        /\ preference_location = DefaultPreferences
        /\ hero_dataframe = Constructed(files).hero_dataframe

\* C27: a draw whose image is already in the images folder, saved there by an
\* earlier request of the session or present from the start, is served from
\* the folder and asks the network for nothing.
C27_SavedImageIsNotFetchedAgain ==
    [][(/\ last'.op = "callback_generate_random_hero"
        /\ last'.fetch.called
        /\ last'.fetch.image_stub \in images) =>
            last'.fetch.response = "none"]_vars

\* the session had the call applied once more to the state it left, with the
\* checkboxes as they were for the call
AppliedAgain ==
    callback_generate_masks(
        [hero_dataframe |-> hero_dataframe',
         mask |-> mask',
         filtered_dataframe |-> filtered_dataframe',
         hero_probabilities |-> hero_probabilities',
         preference_location |-> preference_location',
         checkbox |-> checkbox,
         exc |-> "None"], filters)

\* C26: the mask, filtered pool and probabilities a returning
\* callback_generate_masks leaves are fixed by the pool and the checkboxes of
\* the call alone (the pool under the mask the checkboxes stand for, or the
\* whole pool when that mask keeps no hero), whatever mask an earlier call
\* left; and applying the same checkboxes once more leaves the same mask,
\* filtered pool and probabilities.
C26_ApplyIsHistoryIndependentAndIdempotent ==
    [][(last'.op = "callback_generate_masks" /\ last'.exc = "None") =>
          LET m == IF any(SelectionMask(hero_dataframe, filters))
                   THEN SelectionMask(hero_dataframe, filters)
                   ELSE [i \in 1..Len(hero_dataframe.data) |-> TRUE]
          IN  /\ hero_dataframe' = hero_dataframe
              /\ mask' = m
              /\ filtered_dataframe'.data = Take(hero_dataframe.data, m)
              /\ hero_probabilities' =
                    softmax([i \in 1..Len(Take(hero_dataframe.data, m)) |->
                                preference(Take(hero_dataframe.data, m)[i])])
              /\ AppliedAgain.exc = "None"
              /\ AppliedAgain.mask = mask'
              /\ AppliedAgain.filtered_dataframe = filtered_dataframe'
              /\ AppliedAgain.hero_probabilities = hero_probabilities']_vars

\* callback_generate_masks with only support ticked, on a session whose mask
\* an earlier call with strength ticked had left at axe alone: lina is kept
C26_Witness ==
    /\ last.op = "callback_generate_masks"
    /\ last.exc = "None"
    /\ last.before = <<TRUE, FALSE, FALSE>>
    /\ checkbox = [primary_attribute |-> {}, roles |-> {"support"}]
    /\ Len(hero_dataframe.data) = 3
    /\ mask = <<FALSE, TRUE, FALSE>>

\* C21: whatever the state it is called in, callback_clear_masks leaves every
\* checkbox off, the mask all true with one entry per hero, the filtered pool
\* equal to the pool, and the probabilities those of the whole pool, one per
\* hero.
C21_ClearResetsFromAnyState ==
    last.op = "callback_clear_masks" =>
        /\ \A a \in Range(filters) : checkbox[a] = {}
        /\ AllEligible
        /\ Len(hero_probabilities) = Len(hero_dataframe.data)

----------------------------------------------------------------------------
(* The session on a configuration file that lacks a filter of gui_config *)

InitAxis == InitOn((Configuration :> hero_configuration_without_roles) @@ DiskFiles)

SpecAxis == InitAxis /\ [][Next]_vars

\* C16: after a call of callback_generate_masks with a filter that is no
\* column of the pool, the mask has one entry per hero, the filtered pool is
\* the pool under the mask and the probabilities are those of the filtered
\* pool.
C16_UnknownAxisLeavesSessionConsistent ==
    (/\ last.op = "callback_generate_masks"
     /\ \E a \in Range(last.arg) : a \notin hero_dataframe.columns) =>
        /\ filtered_dataframe # NoneFrame
        /\ Len(mask) = Len(hero_dataframe.data)
        /\ filtered_dataframe.data = Take(hero_dataframe.data, mask)
        /\ hero_probabilities =
              softmax([i \in 1..Len(filtered_dataframe.data) |->
                          preference(filtered_dataframe.data[i])])

----------------------------------------------------------------------------
(* generate_mask alone, on the pools of every small configuration file *)

\* the most heroes of a generated file
MaxHeroes == 2

HeroNames == <<"axe", "lina", "puck", "zeus", "tiny">>

Attributes == {"strength", "intelligence"}
Tags == {"carry", "support"}

\* the configuration files of n heroes: one attribute and any tags for each
ConfigurationFiles(n) ==
    LET names == SubSeq(HeroNames, 1, n)
    IN  {[decodable |-> TRUE,
          keys |-> names,
          recs |-> [k \in Range(names) |->
                       [primary_attribute |-> Scalar(p[k]),
                        roles |-> PyList(t[k]),
                        image_prefix |-> k]]] :
            p \in [Range(names) -> Attributes], t \in [Range(names) -> SUBSET Tags]}

\* the preference file of n heroes that gives every hero the score 0
FlatPreferences(n) ==
    LET names == SubSeq(HeroNames, 1, n)
    IN  [decodable |-> TRUE,
         keys |-> names,
         recs |-> [k \in Range(names) |-> [preference |-> 0]]]

Disk(preferences, configuration) ==
    (DefaultPreferences :> preferences) @@ (Configuration :> configuration)

InitMask ==
    \E n \in 1..MaxHeroes : \E c \in ConfigurationFiles(n) :
        InitOn(Disk(FlatPreferences(n), c))

CallGenerateMask ==
    \E column_to_check \in {"primary_attribute", "roles"} :
    \E desired_values \in SUBSET (Attributes \cup Tags) :
        /\ probe' = [fn |-> "generate_mask",
                     column_to_check |-> column_to_check,
                     desired_values |-> desired_values,
                     result |-> generate_mask(hero_dataframe, column_to_check,
                                              desired_values)]
        /\ UNCHANGED <<files, hero_dataframe, mask, filtered_dataframe,
                       hero_probabilities, preference_location, checkbox,
                       hero_text, photo, available_images, images, last>>

NextMask == CallGenerateMask

SpecMask == InitMask /\ [][NextMask]_vars

\* the value of a scalar cell
ValueOf(cell) == CHOOSE x \in cell.v : TRUE

\* C7: generate_mask returns one entry per row of the pool; on a scalar
\* column the entry says whether the row's value is among the desired values,
\* on a column of lists whether the row's list shares a value with them.
C7_MaskIsMembershipOrIntersection ==
    probe.fn = "generate_mask" =>
        /\ probe.result.exc = "None"
        /\ Len(probe.result.mask) = Len(hero_dataframe.data)
        /\ \A i \in 1..Len(hero_dataframe.data) :
              LET cell == hero_dataframe.data[i].rec[probe.column_to_check]
              IN  probe.result.mask[i] =
                     IF probe.column_to_check = "primary_attribute"
                     THEN ValueOf(cell) \in probe.desired_values
                     ELSE cell.v \cap probe.desired_values # {}

\* a call on the column of lists where a row holds two tags and one is desired
C7_Witness ==
    /\ probe.fn = "generate_mask"
    /\ probe.column_to_check = "roles"
    /\ probe.desired_values = {"carry", "strength"}
    /\ Len(hero_dataframe.data) = 2
    /\ hero_dataframe.data[1].rec.roles.v = {"carry", "support"}
    /\ hero_dataframe.data[2].rec.roles.v = {"support"}
    /\ probe.result.mask = <<TRUE, FALSE>>

\* the distinct values of a column of the pool
DistinctValues(df, column) ==
    UNION {Cell(df.data[i], column).v : i \in 1..Len(df.data)}

\* C8 as claimed: with the distinct values of the column as desired values,
\* every entry of the mask is true.
C8_AllValuesGiveAllTrue ==
    (/\ probe.fn = "generate_mask"
     /\ probe.desired_values = DistinctValues(hero_dataframe, probe.column_to_check))
        => AllTrue(probe.result.mask, hero_dataframe)

\* C8 as amended: with the distinct values of the column as desired values,
\* the entry of a row is true exactly when the row holds a value: every entry
\* on a scalar column, and on a column of lists every entry but those of the
\* rows whose list is empty.
C8_AllValuesGiveRowsWithAValue ==
    (/\ probe.fn = "generate_mask"
     /\ probe.desired_values = DistinctValues(hero_dataframe, probe.column_to_check))
        => /\ Len(probe.result.mask) = Len(hero_dataframe.data)
           /\ \A i \in 1..Len(hero_dataframe.data) :
                 probe.result.mask[i] =
                    (hero_dataframe.data[i].rec[probe.column_to_check].v # {})
           /\ probe.column_to_check = "primary_attribute"
                 => AllTrue(probe.result.mask, hero_dataframe)

\* such a call on the column of lists, over two rows holding different tags
C8_Witness ==
    /\ probe.fn = "generate_mask"
    /\ probe.column_to_check = "roles"
    /\ probe.desired_values = {"carry", "support"}
    /\ Len(hero_dataframe.data) = 2
    /\ hero_dataframe.data[1].rec.roles.v = {"carry"}
    /\ hero_dataframe.data[2].rec.roles.v = {"support"}
    /\ probe.result.mask = <<TRUE, TRUE>>

----------------------------------------------------------------------------
(* generate_combined_mask alone, on every pair of short masks *)

\* the longest mask of a pair
MaxLen == 3

\* None, and the arrays of n booleans
Masks(n) == {NoneMask} \cup {Array(m) : m \in [1..n -> BOOLEAN]}

InitCombine == InitOn(DiskFiles)

CallGenerateCombinedMask ==
    \E n \in 0..MaxLen : \E mask_1 \in Masks(n) : \E mask_2 \in Masks(n) :
        /\ probe' = [fn |-> "generate_combined_mask",
                     mask_1 |-> mask_1,
                     mask_2 |-> mask_2,
                     result |-> generate_combined_mask(mask_1, mask_2)]
        /\ UNCHANGED <<files, hero_dataframe, mask, filtered_dataframe,
                       hero_probabilities, preference_location, checkbox,
                       hero_text, photo, available_images, images, last>>

NextCombine == CallGenerateCombinedMask

SpecCombine == InitCombine /\ [][NextCombine]_vars

\* C9: generate_combined_mask returns the other mask when one is None, None
\* when both are, and the entry by entry AND of two arrays.
C9_NoneIsIdentityOfCombine ==
    probe.fn = "generate_combined_mask" =>
        /\ ~probe.mask_1.some => probe.result = probe.mask_2
        /\ ~probe.mask_2.some => probe.result = probe.mask_1
        /\ (~probe.mask_1.some /\ ~probe.mask_2.some) => probe.result = NoneMask
        /\ (probe.mask_1.some /\ probe.mask_2.some) =>
              /\ probe.result.some
              /\ Len(probe.result.arr) = Len(probe.mask_1.arr)
              /\ \A i \in 1..Len(probe.mask_1.arr) :
                    probe.result.arr[i] = (probe.mask_1.arr[i] /\ probe.mask_2.arr[i])

\* a call with None and an array that holds both truth values
C9_Witness ==
    /\ probe.fn = "generate_combined_mask"
    /\ probe.mask_1 = NoneMask
    /\ probe.mask_2 = Array(<<TRUE, FALSE>>)
    /\ probe.result = Array(<<TRUE, FALSE>>)

----------------------------------------------------------------------------
(* generate_hero_dataframe alone, on every pair of small files *)

\* the records a configuration file can give a hero: an attribute, and
\* maybe a preference of its own
ConfigurationRecs ==
    {[f \in F |-> IF f = "preference" THEN 1 ELSE Scalar(p)] :
        F \in {{"primary_attribute"}, {"primary_attribute", "preference"}},
        p \in Attributes}

\* the records a preference file can give a hero: any of a preference and
\* an attribute
PreferenceRecs ==
    {[f \in F |-> IF f = "preference" THEN q ELSE Scalar("agility")] :
        F \in SUBSET {"preference", "primary_attribute"}, q \in {0, 2}}

\* a hero no configuration file knows
Stranger == "techies"

\* the pairs of a preference file and a configuration file: the configuration
\* file knows n heroes, the preference file the first m of them and maybe a
\* stranger
FilePairs(n) ==
    LET names == SubSeq(HeroNames, 1, n)
    IN  {Disk([decodable |-> TRUE,
               keys |-> SubSeq(names, 1, m) \o (IF stranger THEN <<Stranger>> ELSE <<>>),
               recs |-> [k \in Range(SubSeq(names, 1, m)) \cup
                                (IF stranger THEN {Stranger} ELSE {}) |->
                            IF k = Stranger THEN [preference |-> 0] ELSE pr[k]]],
              [decodable |-> TRUE, keys |-> names, recs |-> cr]) :
            m \in 0..n,
            stranger \in BOOLEAN,
            pr \in [Range(names) -> PreferenceRecs],
            cr \in [Range(names) -> ConfigurationRecs]}

\* a manager built on the usual files, whose files were then rewritten
InitLoad ==
    \E n \in 1..MaxHeroes : \E disk \in FilePairs(n) :
        /\ files = disk
        /\ hero_dataframe = Constructed(DiskFiles).hero_dataframe
        /\ mask = Constructed(DiskFiles).mask
        /\ filtered_dataframe = Constructed(DiskFiles).filtered_dataframe
        /\ hero_probabilities = Constructed(DiskFiles).hero_probabilities
        /\ preference_location = Constructed(DiskFiles).preference_location
        /\ checkbox = Constructed(DiskFiles).checkbox
        /\ hero_text = ""
        /\ photo = default_image
        /\ available_images = ImagesFolder
        /\ images = ImagesFolder
        /\ last = [op |-> "__init__", exc |-> "None", no_match |-> FALSE, arg |-> <<>>,
               before |-> <<>>, fetch |-> NoFetch]
        /\ probe = [fn |-> "none"]

CallGenerateHeroDataframe ==
    /\ probe' = [fn |-> "generate_hero_dataframe",
                 result |-> generate_hero_dataframe(files, DefaultPreferences,
                                                    Configuration)]
    /\ UNCHANGED <<files, hero_dataframe, mask, filtered_dataframe,
                   hero_probabilities, preference_location, checkbox,
                   hero_text, photo, available_images, images, last>>

NextLoad == CallGenerateHeroDataframe

SpecLoad == InitLoad /\ [][NextLoad]_vars

\* the preference file knows only heroes of the configuration file
NoStranger == Stranger \notin Range(files[DefaultPreferences].keys)

\* C10 as claimed: for a hero of both files, a field both files give the
\* hero has the value of the preference file, and a field the preference
\* file does not give has that of the configuration file.
C10_PreferencesTakePrecedence ==
    (probe.fn = "generate_hero_dataframe" /\ NoStranger) =>
        LET hero_dict == files[Configuration]
            pref_dict == files[DefaultPreferences]
            df == probe.result.df
        IN  /\ probe.result.exc = "None"
            /\ \A k \in Range(hero_dict.keys) \cap Range(pref_dict.keys) :
                  \E i \in 1..Len(df.data) :
                     /\ df.data[i].name = k
                     /\ \A f \in Fields(hero_dict.recs[k]) :
                           df.data[i].rec[f] =
                              IF f \in Fields(pref_dict.recs[k])
                              THEN pref_dict.recs[k][f]
                              ELSE hero_dict.recs[k][f]

\* C10 as amended: the pool holds the heroes of the preference file; each holds the fields of both files; a field the configuration file
\* gives the hero has the value of the configuration file, also when the
\* preference file gives it too, and any other field has the value of the
\* preference file.
C10_ConfigurationTakesPrecedence ==
    (probe.fn = "generate_hero_dataframe" /\ NoStranger) =>
        LET hero_dict == files[Configuration]
            pref_dict == files[DefaultPreferences]
            df == probe.result.df
        IN  /\ probe.result.exc = "None"
            /\ Len(df.data) = Len(pref_dict.keys)
            /\ {df.data[i].name : i \in 1..Len(df.data)} = Range(pref_dict.keys)
            /\ \A i \in 1..Len(df.data) :
                  LET k == df.data[i].name
                  IN  /\ Fields(df.data[i].rec) =
                            Fields(pref_dict.recs[k]) \cup Fields(hero_dict.recs[k])
                      /\ \A f \in Fields(hero_dict.recs[k]) :
                            df.data[i].rec[f] = hero_dict.recs[k][f]
                      /\ \A f \in Fields(pref_dict.recs[k]) \ Fields(hero_dict.recs[k]) :
                            df.data[i].rec[f] = pref_dict.recs[k][f]

\* a load where both files give axe an attribute, and not the same, and only
\* the preference file gives axe a preference
C10_Witness ==
    /\ probe.fn = "generate_hero_dataframe"
    /\ probe.result.exc = "None"
    /\ files[DefaultPreferences].keys = <<"axe">>
    /\ files[DefaultPreferences].recs["axe"] =
          [preference |-> 2, primary_attribute |-> Scalar("agility")]
    /\ files[Configuration].recs["axe"] = [primary_attribute |-> Scalar("strength")]
    /\ probe.result.df.data[1].rec =
          [preference |-> 2, primary_attribute |-> Scalar("strength")]

\* the file without the identifier k
Ignoring(file, k) ==
    [decodable |-> file.decodable,
     keys |-> SelectSeq(file.keys, LAMBDA x : x # k),
     recs |-> [x \in DOMAIN file.recs \ {k} |-> file.recs[x]]]

\* C11: when the preference file names a hero the configuration file does not
\* know, generate_hero_dataframe returns, and returns the pool it builds from
\* the preference file without that hero.
C11_StrangerIsIgnored ==
    (probe.fn = "generate_hero_dataframe" /\ ~NoStranger) =>
        /\ probe.result.exc = "None"
        /\ probe.result.df =
              generate_hero_dataframe(
                  Disk(Ignoring(files[DefaultPreferences], Stranger),
                       files[Configuration]),
                  DefaultPreferences, Configuration).df

\* C12: every hero of a pool generate_hero_dataframe returns has a preference,
\* also a hero the preference file gives none.
C12_EveryHeroHasAPreference ==
    (probe.fn = "generate_hero_dataframe" /\ probe.result.exc = "None") =>
        \A i \in 1..Len(probe.result.df.data) :
            /\ "preference" \in Fields(probe.result.df.data[i].rec)
            /\ preference(probe.result.df.data[i]) # NaN

----------------------------------------------------------------------------
(* generate_probability_list alone, on the filtered pools of every small    *)
(* preference file                                                          *)

\* the most heroes of a generated preference file
MaxSubset == 3

\* the highest preference: "The values are scaled from 0 to 4"
MaxScore == 4

\* the preference files of n heroes: each hero has a preference, or no
\* preference field
ScoredPreferences(n) ==
    LET names == SubSeq(HeroNames, 1, n)
    IN  {[decodable |-> TRUE,
          keys |-> names,
          recs |-> [k \in Range(names) |->
                       [f \in (IF q[k] = NaN THEN {} ELSE {"preference"}) |-> q[k]]]] :
            q \in [Range(names) -> (0..MaxScore) \cup {NaN}]}

\* a configuration file of n heroes
PlainConfiguration(n) ==
    LET names == SubSeq(HeroNames, 1, n)
    IN  [decodable |-> TRUE,
         keys |-> names,
         recs |-> [k \in Range(names) |->
                      [primary_attribute |-> Scalar("strength"),
                       roles |-> PyList({"carry"}),
                       image_prefix |-> k]]]

InitSoftmax ==
    \E n \in 1..MaxSubset : \E p \in ScoredPreferences(n) :
        InitOn(Disk(p, PlainConfiguration(n)))

\* generate_probability_list on the pool under a mask that keeps a hero
CallGenerateProbabilityList ==
    \E m \in [1..Len(hero_dataframe.data) -> BOOLEAN] :
        /\ any(m)
        /\ LET subset == [columns |-> hero_dataframe.columns,
                          data |-> Take(hero_dataframe.data, m)]
           IN  probe' = [fn |-> "generate_probability_list",
                         filtered_dataframe |-> subset,
                         result |-> generate_probability_list(subset)]
        /\ UNCHANGED <<files, hero_dataframe, mask, filtered_dataframe,
                       hero_probabilities, preference_location, checkbox,
                       hero_text, photo, available_images, images, last>>

NextSoftmax == CallGenerateProbabilityList

SpecSoftmax == InitSoftmax /\ [][NextSoftmax]_vars

\* C18: on a filtered pool that holds a hero, generate_probability_list
\* returns probabilities none of which is negative and which sum to 1.
C18_DistributionSumsToOne ==
    probe.fn = "generate_probability_list" =>
        /\ probe.result.exc = "None"
        /\ \A i \in 1..Len(probe.result.value) :
              probe.result.value[i].num >= 0 /\ probe.result.value[i].den > 0
        /\ SumSeq([i \in 1..Len(probe.result.value) |-> probe.result.value[i].num])
              = probe.result.value[1].den

\* p > q and p = q for probabilities; NaN is neither above nor equal to
\* anything
Above(p, q) == p.den > 0 /\ q.den > 0 /\ p.num * q.den > q.num * p.den
Same(p, q) == p.den > 0 /\ q.den > 0 /\ p.num * q.den = q.num * p.den

\* C19: of two heroes of the same filtered pool, the one of the higher
\* preference has the higher probability, and two of the same preference
\* have the same probability.
C19_SoftmaxIsMonotonic ==
    probe.fn = "generate_probability_list" =>
        \A i, j \in 1..Len(probe.filtered_dataframe.data) :
            LET a == preference(probe.filtered_dataframe.data[i])
                b == preference(probe.filtered_dataframe.data[j])
            IN  (i # j /\ a # NaN /\ b # NaN) =>
                   /\ probe.result.exc = "None"
                   /\ a > b => Above(probe.result.value[i], probe.result.value[j])
                   /\ a = b => Same(probe.result.value[i], probe.result.value[j])

====
